---- MODULE Spec2Model ----
(***************************************************************************)
(* Solar Flare Explorer (app.py): a page script that validates a date      *)
(* range, fetches flare records from the DONKI endpoint, flattens them     *)
(* into a table and renders a total count and three views.                 *)
(*                                                                         *)
(* A page run is the execution of main().  A run is started by the user    *)
(* changing one of the two date inputs or by the Analyze trigger.  The     *)
(* positions of a triggered run are kept in pc; a run that is not          *)
(* triggered finishes within one step.                                     *)
(***************************************************************************)
EXTENDS Integers, Sequences, FiniteSets, TLC

VARIABLES
    start_date,   \* value of the "Start Date" input (a calendar day number)
    end_date,     \* value of the "End Date" input
    trigger,      \* TRUE iff the last run was started by the Analyze trigger
    pc,           \* position of the current run in main()
    request,      \* <<>> or <<[startDate, endDate]>>: the last outbound GET
    requests,     \* number of outbound GETs issued so far
    refetch,      \* TRUE iff the last GET repeats the range of the GET before it
    response,     \* <<>> or <<[status_code, json]>>: the answer to the last GET
    df,           \* <<>> or <<DataFrame>>: the table of the current run
    errorShown,   \* st.error(...) is on the page
    total,        \* <<>> or <<n>>: the "Total Flares: n" heading on the page
    fig1,         \* <<>> or <<pie figure>>
    fig2,         \* <<>> or <<line figure>>
    fig3,         \* <<>> or <<scatter figure>>
    exception,    \* <<>> or <<exception>>: the uncaught exception ending the run
    log           \* the effects of the current run, in the order they happened

vars == <<start_date, end_date, trigger, pc, request, requests, refetch,
          response, df, errorShown, total, fig1, fig2, fig3, exception, log>>

---------------------------------------------------------------------------
(* Bounds of the model *)

\* calendar days 0..MaxDay can be picked and can carry flares
MaxDay == 2
\* largest number of records in one upstream response
MaxLen == 2
\* largest number of outbound requests followed
MaxRuns == 2

---------------------------------------------------------------------------
(* Calendar and JSON values *)

Days == 0..MaxDay

\* datetime.now(timezone.utc).date()
Today == MaxDay

\* timedelta(days=30)
DefaultSpan == 30

\* length of a calendar day in the unit of the timestamps (hours)
HoursPerDay == 24

Max(a, b) == IF a >= b THEN a ELSE b

JNull == [tag |-> "null"]
JStr(s) == [tag |-> "str", str |-> s]
JNum(n) == [tag |-> "num", num |-> n]
JList(l) == [tag |-> "list", items |-> l]
\* an ISO-8601 timestamp string of day d, hour h
JTime(d, h) == [tag |-> "time", day |-> d, hour |-> h]

\* the five class letters of the taxonomy, each with one magnitude suffix
ClassTypes == << <<"A", "1", ".", "0">>, <<"B", "2", ".", "1">>,
                 <<"C", "3", ".", "3">>, <<"M", "2", ".", "3">>,
                 <<"X", "1", ".", "0">> >>

Alphabet == << "A", "B", "C", "D", "E", "F", "G", "H", "I", "J", "K", "L", "M",
               "N", "O", "P", "Q", "R", "S", "T", "U", "V", "W", "X", "Y", "Z" >>

\* code point of "A"
OrdA == 65

\* Python's ord() on a capital letter
ord(c) == OrdA + (CHOOSE i \in 1..Len(Alphabet) : Alphabet[i] = c) - 1

---------------------------------------------------------------------------
(* The upstream endpoint: the records it can answer with *)

\* status code of a successful response
HTTP_OK == 200

ErrorStatuses == {404, 500, 503}

\* the keys process_data reads by subscript, in the order it reads them
SubscriptKeys == << "flrID", "beginTime", "peakTime", "endTime", "classType",
                    "sourceLocation", "activeRegionNum" >>

Without(f, K) == [k \in (DOMAIN f) \ K |-> f[k]]

Full(d, h, c, loc, arn, le, ins) ==
    [flrID |-> JStr(<<d, h>>),
     beginTime |-> JTime(d, h), peakTime |-> JTime(d, h), endTime |-> JTime(d, h),
     classType |-> JStr(c), sourceLocation |-> loc, activeRegionNum |-> arn,
     linkedEvents |-> le, instruments |-> ins]

\* records that carry every subscripted key; the optional lists are absent
\* (1), null (2), empty (3) or filled (4, 5)
WellFormed(d, v) ==
    CASE v = 1 -> Without(Full(d, 0, ClassTypes[1], JStr("N10E20"), JNum(13500),
                               JNull, JNull), {"linkedEvents", "instruments"})
      [] v = 2 -> Full(d, 23, ClassTypes[2], JNull, JNull, JNull, JNull)
      [] v = 3 -> Full(d, 12, ClassTypes[3], JStr("S05W30"), JNum(13501),
                       JList(<<>>), JList(<<"GOES-P: EXIS 1.0-8.0">>))
      [] v = 4 -> Full(d, 6, ClassTypes[4], JStr("N10E20"), JNull,
                       JList(<<"CME-001", "SEP-001">>), JList(<<"GOES-P: EXIS 1.0-8.0">>))
      [] OTHER -> Full(d, 18, ClassTypes[5], JStr("S05W30"), JNum(13500),
                       JList(<<"CME-001">>), JList(<<"GOES-P: EXIS 1.0-8.0", "SDO: AIA">>))

\* a record that lacks one subscripted key
Lacking(d, k) == Without(WellFormed(d, 4), {k})

\* the records the upstream can hold for the range s..e: flares begin inside
\* the requested range
RecordsIn(s, e) ==
    {WellFormed(d, v) : d \in (s..e) \cap Days, v \in 1..2}
    \cup {WellFormed(Max(s, 0), v) : v \in 3..5}
    \cup {Lacking(Max(s, 0), SubscriptKeys[i]) : i \in 1..Len(SubscriptKeys)}

SeqsUpTo(S, n) == UNION {[1..m -> S] : m \in 0..n}

Responses(s, e) ==
    {[status_code |-> HTTP_OK, json |-> j] : j \in SeqsUpTo(RecordsIn(s, e), MaxLen)}
    \cup {[status_code |-> c, json |-> <<>>] : c \in ErrorStatuses}

---------------------------------------------------------------------------
(* Exceptions *)

\* raise Exception(f"API call failed with status code {status}")
ApiException(status) == [type |-> "Exception", status_code |-> status, key |-> ""]

\* a failed subscript: flare[key], df[key]
KeyError(k) == [type |-> "KeyError", status_code |-> 0, key |-> k]

---------------------------------------------------------------------------
(* process_data *)

SetMin(S) == CHOOSE x \in S : \A y \in S : x <= y
SetMax(S) == CHOOSE x \in S : \A y \in S : x >= y

\* variant: a null value is taken for a missing key
MissingKeys_NullCounts(flare) ==
    {i \in 1..Len(SubscriptKeys) :
        \/ SubscriptKeys[i] \notin DOMAIN flare
        \/ flare[SubscriptKeys[i]].tag = "null"}

\* indices of the subscripted keys the record lacks
MissingKeys(flare) == {i \in 1..Len(SubscriptKeys) : SubscriptKeys[i] \notin DOMAIN flare}

\* flare.get(key, default)
get(flare, key, default) == IF key \in DOMAIN flare THEN flare[key] ELSE default

\* v or []
OrEmptyList(v) ==
    IF v.tag = "null" THEN JList(<<>>)
    ELSE IF v.tag = "list" /\ v.items = <<>> THEN JList(<<>>)
    ELSE v

\* len(flare.get(key, []) or [])
CountOf(flare, key) == Len(OrEmptyList(get(flare, key, JList(<<>>))).items)

\* the dict appended for one record
Row(flare) ==
    [flrID |-> flare.flrID, beginTime |-> flare.beginTime,
     peakTime |-> flare.peakTime, endTime |-> flare.endTime,
     classType |-> flare.classType, sourceLocation |-> flare.sourceLocation,
     activeRegionNum |-> flare.activeRegionNum,
     linkedEvents |-> CountOf(flare, "linkedEvents"),
     instruments |-> CountOf(flare, "instruments")]

\* pd.DataFrame(list of dicts): the columns are the keys of the dicts, so an
\* empty list gives a frame without columns
DataFrame(rows) ==
    [columns |-> IF rows = <<>> THEN {} ELSE DOMAIN rows[1], rows |-> rows]

Raised(e) == [raised |-> <<e>>, value |-> <<>>]
Returned(v) == [raised |-> <<>>, value |-> <<v>>]

RECURSIVE process_loop(_, _)
process_loop(data, processed_data) ==
    IF data = <<>> THEN Returned(DataFrame(processed_data))
    ELSE IF MissingKeys(Head(data)) # {}
         THEN Raised(KeyError(SubscriptKeys[SetMin(MissingKeys(Head(data)))]))
         ELSE process_loop(Tail(data), Append(processed_data, Row(Head(data))))

\* variant: each row is inserted in front of the rows before it
RECURSIVE process_loop_Prepend(_, _)
process_loop_Prepend(data, processed_data) ==
    IF data = <<>> THEN Returned(DataFrame(processed_data))
    ELSE IF MissingKeys(Head(data)) # {}
         THEN Raised(KeyError(SubscriptKeys[SetMin(MissingKeys(Head(data)))]))
         ELSE process_loop_Prepend(Tail(data), <<Row(Head(data))>> \o processed_data)

process_data_Prepend(data) == process_loop_Prepend(data, <<>>)

process_data(data) == process_loop(data, <<>>)

---------------------------------------------------------------------------
(* The three views *)

\* df[col].value_counts(): the number of rows per distinct value
value_counts(frame, col) ==
    LET rows == frame.rows
        vals == {rows[i][col] : i \in DOMAIN rows}
    IN  [v \in vals |-> Cardinality({i \in DOMAIN rows : rows[i][col] = v})]

\* pd.to_datetime on one timestamp string
to_datetime(v) == [tag |-> "ts", ts |-> v.day * HoursPerDay + v.hour]

\* df['beginTime'] = pd.to_datetime(df['beginTime'])
ConvertBeginTime(frame) ==
    [frame EXCEPT !.rows =
        [i \in DOMAIN frame.rows |->
            [frame.rows[i] EXCEPT !.beginTime = to_datetime(frame.rows[i].beginTime)]]]

\* variant: the nearest midnight instead of the last one
DayOf_Rounded(ts) == (ts + HoursPerDay \div 2) \div HoursPerDay

\* the calendar day a timestamp falls on
DayOf(ts) == ts \div HoursPerDay

\* variant: groupby on the day, which has no pair for a day without flares
resample_count_GroupBy(frame) ==
    LET rows == frame.rows
        days == {DayOf(rows[i].beginTime.ts) : i \in DOMAIN rows}
        RECURSIVE Ascending(_)
        Ascending(S) ==
            IF S = {} THEN <<>>
            ELSE <<SetMin(S)>> \o Ascending(S \ {SetMin(S)})
        order == Ascending(days)
    IN  [j \in DOMAIN order |->
            [beginTime |-> [tag |-> "ts", ts |-> order[j] * HoursPerDay],
             flrID |-> Cardinality({i \in DOMAIN rows :
                          /\ DayOf(rows[i].beginTime.ts) = order[j]
                          /\ rows[i].flrID.tag # "null"})]]

\* df.set_index('beginTime').resample('D')['flrID'].count().reset_index():
\* one bin per day from the day of the smallest to the day of the largest
\* index value, each labelled with its midnight, counting the non-null flrID
resample_count(frame) ==
    LET rows == frame.rows
        stamps == {rows[i].beginTime.ts : i \in DOMAIN rows}
        first == DayOf(SetMin(stamps))
        last == DayOf(SetMax(stamps))
    IN  IF rows = <<>> THEN <<>>
        ELSE [j \in 1..(last - first + 1) |->
                [beginTime |-> [tag |-> "ts", ts |-> (first + j - 1) * HoursPerDay],
                 flrID |-> Cardinality({i \in DOMAIN rows :
                              /\ DayOf(rows[i].beginTime.ts) = first + j - 1
                              /\ rows[i].flrID.tag # "null"})]]

\* lambda x: ord(x[0]) - 65
intensity(x) == ord(x.str[1]) - OrdA

\* df['intensity'] = df['classType'].apply(...)
AddIntensity(frame) ==
    [columns |-> frame.columns \cup {"intensity"},
     rows |-> [i \in DOMAIN frame.rows |->
                 [k \in (DOMAIN frame.rows[i]) \cup {"intensity"} |->
                     IF k = "intensity" THEN intensity(frame.rows[i].classType)
                     ELSE frame.rows[i][k]]]]

\* list(range(start, stop, step))
range(from, stop, step) ==
    [i \in 1..((stop - from + step - 1) \div step) |-> from + (i - 1) * step]

TickStart == 0
TickStop == 24
TickStep == 5
TickText == <<"A", "B", "C", "M", "X">>
YRangeLow == -1
YRangeHigh == 24

\* px.scatter(df, x='beginTime', y='intensity', ...) with the axis updates
Scatter(frame) ==
    [points |-> [i \in DOMAIN frame.rows |->
                    [x |-> frame.rows[i].beginTime, y |-> frame.rows[i].intensity,
                     classType |-> frame.rows[i].classType]],
     tickvals |-> range(TickStart, TickStop, TickStep),
     ticktext |-> TickText,
     yaxis_range |-> <<YRangeLow, YRangeHigh>>]

---------------------------------------------------------------------------
(* get_solar_flare_data *)

\* date.strftime('%Y-%m-%d'): the text of a calendar day
strftime(d) == [tag |-> "date", day |-> d]

\* the query of the GET
Query(s, e) == [startDate |-> strftime(s), endDate |-> strftime(e)]

\* variant: the status code is not looked at
get_solar_flare_data_Unchecked(resp) == Returned(resp.json)

\* what get_solar_flare_data does with the response
get_solar_flare_data(resp) ==
    IF resp.status_code = HTTP_OK THEN Returned(resp.json)
    ELSE Raised(ApiException(resp.status_code))

---------------------------------------------------------------------------
(* The page *)

Init ==
    /\ start_date = Today - DefaultSpan
    /\ end_date = Today
    /\ trigger = FALSE
    /\ pc = "idle"
    /\ request = <<>>
    /\ requests = 0
    /\ refetch = FALSE
    /\ response = <<>>
    /\ df = <<>>
    /\ errorShown = FALSE
    /\ total = <<>>
    /\ fig1 = <<>>
    /\ fig2 = <<>>
    /\ fig3 = <<>>
    /\ exception = <<>>
    /\ log = <<>>

\* a run starts on an empty page
ClearPage ==
    /\ response' = <<>>
    /\ df' = <<>>
    /\ total' = <<>>
    /\ fig1' = <<>>
    /\ fig2' = <<>>
    /\ fig3' = <<>>
    /\ exception' = <<>>

\* main() when st.button returns False: the range is validated, nothing else
Rerun ==
    /\ trigger' = FALSE
    /\ pc' = "idle"
    /\ errorShown' = ~(start_date' <= end_date')
    /\ log' = <<>>
    /\ ClearPage
    /\ UNCHANGED <<request, requests, refetch>>

\* the user picks another start date
ChangeStart(d) ==
    /\ pc = "idle"
    /\ d # start_date
    /\ start_date' = d
    /\ end_date' = end_date
    /\ Rerun

\* the user picks another end date
ChangeEnd(d) ==
    /\ pc = "idle"
    /\ d # end_date
    /\ end_date' = d
    /\ start_date' = start_date
    /\ Rerun

\* variant: the range is not validated before the fetch
PressAnalyze_Unvalidated ==
    /\ pc = "idle"
    /\ trigger' = TRUE
    /\ UNCHANGED <<start_date, end_date>>
    /\ ClearPage
    /\ requests < MaxRuns
    /\ request' = <<Query(start_date, end_date)>>
    /\ requests' = requests + 1
    /\ refetch' = (request = request')
    /\ errorShown' = FALSE
    /\ log' = <<"fetch">>
    /\ pc' = "fetching"

\* variant: the answer to a range is kept and reused for the same range
PressAnalyze_Cached ==
    /\ pc = "idle"
    /\ trigger' = TRUE
    /\ UNCHANGED <<start_date, end_date>>
    /\ df' = <<>>
    /\ total' = <<>>
    /\ fig1' = <<>>
    /\ fig2' = <<>>
    /\ fig3' = <<>>
    /\ exception' = <<>>
    /\ IF start_date <= end_date
       THEN IF request = <<Query(start_date, end_date)>> /\ response # <<>>
                 /\ response[1].status_code = HTTP_OK
            THEN /\ response' = response
                 /\ errorShown' = FALSE
                 /\ log' = <<"fetch">>
                 /\ pc' = "process"
                 /\ UNCHANGED <<request, requests, refetch>>
            ELSE /\ requests < MaxRuns
                 /\ response' = <<>>
                 /\ request' = <<Query(start_date, end_date)>>
                 /\ requests' = requests + 1
                 /\ refetch' = (request = request')
                 /\ errorShown' = FALSE
                 /\ log' = <<"fetch">>
                 /\ pc' = "fetching"
       ELSE /\ response' = <<>>
            /\ errorShown' = TRUE
            /\ log' = <<>>
            /\ pc' = "idle"
            /\ UNCHANGED <<request, requests, refetch>>

\* the Analyze trigger: main() up to the GET of get_solar_flare_data
PressAnalyze ==
    /\ pc = "idle"
    /\ trigger' = TRUE
    /\ UNCHANGED <<start_date, end_date>>
    /\ ClearPage
    /\ IF start_date <= end_date
       THEN /\ requests < MaxRuns
            /\ request' = <<Query(start_date, end_date)>>
            /\ requests' = requests + 1
            /\ refetch' = (request = request')
            /\ errorShown' = FALSE
            /\ log' = <<"fetch">>
            /\ pc' = "fetching"
       ELSE /\ errorShown' = TRUE
            /\ log' = <<>>
            /\ pc' = "idle"
            /\ UNCHANGED <<request, requests, refetch>>

\* the response arrives: the rest of get_solar_flare_data
Arrive(resp) ==
    /\ response' = <<resp>>
    /\ IF get_solar_flare_data(resp).raised # <<>>
       THEN /\ exception' = get_solar_flare_data(resp).raised
            /\ pc' = "idle"
       ELSE /\ exception' = exception
            /\ pc' = "process"
    /\ UNCHANGED <<start_date, end_date, trigger, request, requests, refetch,
                   df, errorShown, total, fig1, fig2, fig3, log>>

\* the upstream answers the GET in flight with one of the responses it can
\* give for the requested range
Respond ==
    /\ pc = "fetching"
    /\ \E resp \in Responses(request[1].startDate.day, request[1].endDate.day) :
          Arrive(resp)

\* data = get_solar_flare_data(...)
data == response[1].json

\* the records of a sequence that carry every subscripted key
RECURSIVE WellFormedOnly(_)
WellFormedOnly(records) ==
    IF records = <<>> THEN <<>>
    ELSE IF MissingKeys(Head(records)) # {} THEN WellFormedOnly(Tail(records))
         ELSE <<Head(records)>> \o WellFormedOnly(Tail(records))

\* variant: a record that lacks a key is skipped and the run goes on
Process_SkipMalformed ==
    /\ pc = "process"
    /\ df' = process_data(WellFormedOnly(data)).value
    /\ log' = Append(log, "transform")
    /\ pc' = "count"
    /\ UNCHANGED <<start_date, end_date, trigger, request, requests, refetch,
                   response, errorShown, total, fig1, fig2, fig3, exception>>

\* df = process_data(data)
Process ==
    /\ pc = "process"
    /\ IF process_data(data).raised # <<>>
       THEN /\ exception' = process_data(data).raised
            /\ pc' = "idle"
            /\ UNCHANGED <<df, log>>
       ELSE /\ df' = process_data(data).value
            /\ log' = Append(log, "transform")
            /\ pc' = "count"
            /\ exception' = exception
    /\ UNCHANGED <<start_date, end_date, trigger, request, requests, refetch,
                   response, errorShown, total, fig1, fig2, fig3>>

\* st.markdown(f"## Total Flares: {len(df)}")
ShowTotal ==
    /\ pc = "count"
    /\ total' = <<Len(df[1].rows)>>
    /\ log' = Append(log, "total")
    /\ pc' = "pie"
    /\ UNCHANGED <<start_date, end_date, trigger, request, requests, refetch,
                   response, df, errorShown, fig1, fig2, fig3, exception>>

\* tabs[0]: class_counts and the pie chart
PieTab ==
    /\ pc = "pie"
    /\ IF "classType" \notin df[1].columns
       THEN /\ exception' = <<KeyError("classType")>>
            /\ pc' = "idle"
            /\ UNCHANGED <<fig1, log>>
       ELSE /\ fig1' = <<value_counts(df[1], "classType")>>
            /\ log' = Append(log, "pie")
            /\ pc' = "timeline"
            /\ exception' = exception
    /\ UNCHANGED <<start_date, end_date, trigger, request, requests, refetch,
                   response, df, errorShown, total, fig2, fig3>>

\* tabs[1]: daily_counts and the line chart
TimelineTab ==
    /\ pc = "timeline"
    /\ IF "beginTime" \notin df[1].columns
       THEN /\ exception' = <<KeyError("beginTime")>>
            /\ pc' = "idle"
            /\ UNCHANGED <<df, fig2, log>>
       ELSE /\ df' = <<ConvertBeginTime(df[1])>>
            /\ fig2' = <<resample_count(df'[1])>>
            /\ log' = Append(log, "timeline")
            /\ pc' = "scatter"
            /\ exception' = exception
    /\ UNCHANGED <<start_date, end_date, trigger, request, requests, refetch,
                   response, errorShown, total, fig1, fig3>>

\* tabs[2]: the intensity column and the scatter chart; the run ends
ScatterTab ==
    /\ pc = "scatter"
    /\ IF "classType" \notin df[1].columns
       THEN /\ exception' = <<KeyError("classType")>>
            /\ UNCHANGED <<df, fig3, log>>
       ELSE /\ df' = <<AddIntensity(df[1])>>
            /\ fig3' = <<Scatter(df'[1])>>
            /\ log' = Append(log, "scatter")
            /\ exception' = exception
    /\ pc' = "idle"
    /\ UNCHANGED <<start_date, end_date, trigger, request, requests, refetch,
                   response, errorShown, total, fig1, fig2>>

Next ==
    \/ \E d \in Days : ChangeStart(d)
    \/ \E d \in Days : ChangeEnd(d)
    \/ PressAnalyze
    \/ Respond
    \/ Process
    \/ ShowTotal
    \/ PieTab
    \/ TimelineTab
    \/ ScatterTab

Spec == Init /\ [][Next]_vars

---------------------------------------------------------------------------
(* Vocabulary of the properties *)

\* the GET of the current run has been answered
Answered == response # <<>>

Status == response[1].status_code

\* process_data has acted on a 200 response
Transformed == Answered /\ Status = HTTP_OK /\ pc \notin {"fetching", "process"}

\* no table, no total-count heading and no view
NoResults == df = <<>> /\ total = <<>> /\ fig1 = <<>> /\ fig2 = <<>> /\ fig3 = <<>>

\* the record carries every key that process_data reads by subscript
AllSubscripted(flare) ==
    \A i \in 1..Len(SubscriptKeys) : SubscriptKeys[i] \in DOMAIN flare

\* the fields the data model calls required
RequiredKeys == {"flrID", "beginTime", "peakTime", "endTime", "classType"}

LacksRequired(flare) == \E k \in RequiredKeys : k \notin DOMAIN flare

\* length of the source list of a record; 0 when the key is absent or null
SourceLen(flare, key) ==
    IF key \notin DOMAIN flare THEN 0
    ELSE IF flare[key].tag = "null" THEN 0
    ELSE Len(flare[key].items)

\* the calendar days written in the beginTime strings of the response
EventDays == {data[i].beginTime.day : i \in DOMAIN data}

\* the (day, count) pairs of the time-series view
Buckets == fig2[1]

RECURSIVE SumCounts(_)
SumCounts(pairs) ==
    IF pairs = <<>> THEN 0 ELSE Head(pairs).flrID + SumCounts(Tail(pairs))

\* the order of the effects of a triggered run
RunOrder == <<"fetch", "transform", "total", "pie", "timeline", "scatter">>

IsPrefix(s, t) == Len(s) <= Len(t) /\ \A i \in 1..Len(s) : s[i] = t[i]

---------------------------------------------------------------------------
(* C1 *)

\* C1: whenever start > end, the run has made no call to the fetcher (no
\* request in flight or answered), has run neither the transformer nor a
\* chart, and the inline error is shown; triggered or not.
C1_InvalidRangeShowsErrorOnly ==
    start_date > end_date =>
        /\ pc = "idle"
        /\ errorShown
        /\ log = <<>>
        /\ response = <<>>
        /\ exception = <<>>
        /\ NoResults

\* the Analyze trigger acted on an invalid range
C1_Witness == start_date > end_date /\ trigger /\ errorShown /\ requests = 0

---------------------------------------------------------------------------
(* C2 *)

\* C2: a response whose status is not 200 ends get_solar_flare_data in an
\* exception that carries the status code; the run is over, it has produced
\* no table, no total and no view, and it has issued one request only.
C2_NonOkAborts ==
    (Answered /\ Status # HTTP_OK) =>
        /\ Len(exception) = 1
        /\ exception[1].type = "Exception"
        /\ exception[1].status_code = Status
        /\ pc = "idle"
        /\ NoResults
        /\ log = <<"fetch">>

C2_Witness ==
    Answered /\ Status = 503 /\ exception # <<>> /\ exception[1].status_code = 503

---------------------------------------------------------------------------
(* C3 *)

---------------------------------------------------------------------------
(* C4 *)

ClaimedIntensity(letter) ==
    CASE letter = "A" -> 0
      [] letter = "B" -> 5
      [] letter = "C" -> 10
      [] letter = "M" -> 15
      [] OTHER -> 20

\* C4: every point of the scatter view has the intensity A -> 0, B -> 5,
\* C -> 10, M -> 15, X -> 20 of its class letter, lies at the tick labelled
\* with that letter and inside the y-range.
C4_PointsOnOwnTick ==
    fig3 # <<>> =>
        \A i \in DOMAIN fig3[1].points :
            LET p == fig3[1].points[i]
                letter == p.classType.str[1]
            IN  /\ p.y = ClaimedIntensity(letter)
                /\ \E k \in DOMAIN fig3[1].tickvals :
                      fig3[1].tickvals[k] = p.y /\ fig3[1].ticktext[k] = letter
                /\ fig3[1].yaxis_range[1] <= p.y
                /\ p.y <= fig3[1].yaxis_range[2]

---------------------------------------------------------------------------
(* C5 *)

\* C5: a run whose response is 200 with an empty array ends without an
\* exception, showing a total of 0 and all three views.
C5_EmptyArrayRendersAll ==
    (pc = "idle" /\ Answered /\ Status = HTTP_OK /\ data = <<>>) =>
        /\ exception = <<>>
        /\ total = <<0>>
        /\ fig1 # <<>>
        /\ fig2 # <<>>
        /\ fig3 # <<>>

---------------------------------------------------------------------------
(* C6 *)

\* C6: for a non-empty table the time series has one bucket per calendar
\* day from the day of the earliest to the day of the latest beginTime, in
\* ascending order without a missing day; each count is the number of rows
\* that begin on that day and the counts add up to the number of rows.
C6_DailyBuckets ==
    (fig2 # <<>> /\ data # <<>>) =>
        LET lo == SetMin(EventDays)
            hi == SetMax(EventDays)
        IN  /\ Len(Buckets) = hi - lo + 1
            /\ \A j \in DOMAIN Buckets :
                  /\ Buckets[j].beginTime.ts = (lo + j - 1) * HoursPerDay
                  /\ Buckets[j].flrID =
                        Cardinality({i \in DOMAIN data : data[i].beginTime.day = lo + j - 1})
            /\ SumCounts(Buckets) = Len(df[1].rows)

\* flares on the first and the third day, none on the day between, one of
\* them in the last hour of its day
C6_Witness ==
    /\ fig2 # <<>>
    /\ Len(Buckets) = 3
    /\ Buckets[2].flrID = 0
    /\ \E i \in DOMAIN data : data[i].beginTime.hour = 23

---------------------------------------------------------------------------
(* C7 *)

\* C7: if any record of the response lacks a required field, process_data
\* raises, wherever the record stands; the run ends with that exception and
\* shows no table, no total and no view.
C7_MalformedAborts ==
    (Answered /\ Status = HTTP_OK /\ \E i \in DOMAIN data : LacksRequired(data[i])) =>
        /\ pc \in {"process", "idle"}
        /\ NoResults
        /\ pc = "idle" => (Len(exception) = 1 /\ exception[1].type = "KeyError")

\* the malformed record comes last, after a well-formed one
C7_Witness ==
    /\ pc = "idle"
    /\ Answered
    /\ Len(data) = 2
    /\ AllSubscripted(data[1])
    /\ LacksRequired(data[2])
    /\ exception # <<>>
    /\ exception[1].type = "KeyError"

---------------------------------------------------------------------------
(* C8 *)

\* C8 as stated: records that have every field but possibly the source
\* location (absent or null) are transformed without error.
C8_SourceLocationOptional ==
    (Transformed /\ \A i \in DOMAIN data :
                       \A k \in 1..Len(SubscriptKeys) :
                           SubscriptKeys[k] # "sourceLocation" =>
                               SubscriptKeys[k] \in DOMAIN data[i]) =>
        df # <<>>

\* C8 amended: the transformation succeeds when every record carries every
\* subscripted key, a null source location included, which the row keeps;
\* it fails with KeyError when a record has no sourceLocation key.
C8_SourceLocationKeyRequired ==
    Transformed =>
        /\ (\A i \in DOMAIN data : AllSubscripted(data[i])) =>
              /\ df # <<>>
              /\ \A i \in DOMAIN data :
                    df[1].rows[i].sourceLocation = data[i].sourceLocation
        /\ (\E i \in DOMAIN data : "sourceLocation" \notin DOMAIN data[i]) =>
              /\ df = <<>>
              /\ Len(exception) = 1
              /\ exception[1].type = "KeyError"

\* a record with a null source location has become a row
C8_Witness ==
    /\ Transformed
    /\ df # <<>>
    /\ \E i \in DOMAIN data : data[i].sourceLocation = JNull

---------------------------------------------------------------------------
(* C9 *)

\* C9 as stated: the time series has one pair for each calendar day of the
\* requested range, from start to end.
C9_BucketsSpanRequestedRange ==
    fig2 # <<>> =>
        /\ Len(Buckets) = end_date - start_date + 1
        /\ \A j \in DOMAIN Buckets :
              Buckets[j].beginTime.ts = (start_date + j - 1) * HoursPerDay

\* C9 amended: the pairs are contiguous, one day apart, from the day of the
\* earliest flare to the day of the latest flare of the response, with
\* count 0 exactly for the days between that have no flare.
C9_BucketsSpanEventDays ==
    fig2 # <<>> =>
        /\ Len(Buckets) >= 1
        /\ DayOf(Buckets[1].beginTime.ts) = SetMin(EventDays)
        /\ DayOf(Buckets[Len(Buckets)].beginTime.ts) = SetMax(EventDays)
        /\ \A j \in 1..(Len(Buckets) - 1) :
              Buckets[j + 1].beginTime.ts = Buckets[j].beginTime.ts + HoursPerDay
        /\ \A j \in DOMAIN Buckets :
              (Buckets[j].flrID = 0) <=> (DayOf(Buckets[j].beginTime.ts) \notin EventDays)

\* the default range, flares on two days with a day without flares between
\* them: a pair with count 0, and fewer pairs than days in the range
C9_Witness ==
    /\ fig2 # <<>>
    /\ \E j \in DOMAIN Buckets : Buckets[j].flrID = 0
    /\ Len(Buckets) < end_date - start_date + 1

---------------------------------------------------------------------------
(* C10 *)

\* a step taken by the Analyze trigger
TriggerStep == pc = "idle" /\ trigger'

\* C10: a trigger with start <= end issues exactly one GET, for the range on
\* the page, whether or not the range was fetched before; no GET is issued
\* otherwise; and within a run the fetch precedes the transformation, which
\* precedes the total, which precedes the three views.
C10_OneFetchPerTrigger ==
    /\ [](/\ IsPrefix(log, RunOrder)
          /\ Answered => Len(log) >= 1
          /\ (df # <<>>) <=> (Len(log) >= 2)
          /\ (total # <<>>) <=> (Len(log) >= 3)
          /\ (fig1 # <<>>) <=> (Len(log) >= 4)
          /\ (fig2 # <<>>) <=> (Len(log) >= 5)
          /\ (fig3 # <<>>) <=> (Len(log) >= 6))
    /\ [][/\ (TriggerStep /\ start_date <= end_date) =>
                /\ requests' = requests + 1
                /\ request' = <<Query(start_date, end_date)>>
                /\ log' = <<"fetch">>
          /\ requests' # requests => (TriggerStep /\ start_date <= end_date)
          /\ request' # request => requests' # requests
          /\ Len(log') <= Len(log) + 1 \/ log' = <<"fetch">>]_vars

\* the same range triggered twice in a row: two GETs
C10_Witness == refetch /\ requests = 2 /\ pc = "fetching"

====
